---- MODULE Spec2Model ----
(***************************************************************************)
(* State-machine model of generate/lora_squad.py: the SQuAD evaluation     *)
(* harness for a LoRA-adapted GPT (start-up checks, checkpoint loading,    *)
(* adapter merge, benchmark parsing, the per-example decode loop and the   *)
(* prediction / reference records).                                        *)
(*                                                                         *)
(* Texts are sequences of one-character strings, so that find / split /    *)
(* strip are computed as Python computes them.  Python offsets are 0-based *)
(* and are kept 0-based in every value the program stores.                 *)
(***************************************************************************)
EXTENDS Integers, Sequences, FiniteSets, TLC

\* ------------------------------------------------------------------ bounds
MaxPrompt == 2          \* encoded prompt lengths are drawn from 1..MaxPrompt
MaxNewTokens == 2       \* max_new_tokens is drawn from 0..MaxNewTokens
MaxWeight == 1          \* base weight entries are drawn from 0..MaxWeight
MaxPieces == 5          \* decoded texts are built from at most MaxPieces pieces
MaxQas == 2             \* question records per paragraph
MaxParagraphs == 2      \* paragraphs per benchmark file

\* ------------------------------------------------------- program constants
lora_r == 8
lora_alpha == 16

None == "None"

\* ------------------------------------------------------------ text helpers
DELIM == <<"#","#","#"," ","R","e","s","p","o","n","s","e",":">>

Whitespace == {" ", "\n", "\t"}

\* s[i..] starts with sub, i a 0-based offset
MatchAt(s, sub, i) ==
    /\ i + Len(sub) <= Len(s)
    /\ \A k \in 1..Len(sub) : s[i + k] = sub[k]

\* str.find(sub, start): lowest 0-based offset >= start where sub occurs, else -1
FindFrom(s, sub, start) ==
    LET hits == {i \in start..Len(s) : MatchAt(s, sub, i)}
    IN  IF hits = {} THEN -1 ELSE CHOOSE i \in hits : \A j \in hits : i <= j

\* str.rfind(sub): the highest offset
FindLast(s, sub) ==
    LET hits == {i \in 0..Len(s) : MatchAt(s, sub, i)}
    IN  IF hits = {} THEN -1 ELSE CHOOSE i \in hits : \A j \in hits : i >= j

\* str.find(sub)
Find(s, sub) == FindFrom(s, sub, 0)

\* s[a:b] with 0-based half-open bounds
Slice(s, a, b) == SubSeq(s, a + 1, b)

\* str.split(sep): the segments between successive non-overlapping occurrences,
\* scanning left to right
RECURSIVE Split(_, _)
Split(s, sep) ==
    LET p == Find(s, sep)
    IN  IF p = -1 THEN <<s>>
        ELSE <<Slice(s, 0, p)>> \o Split(Slice(s, p + Len(sep), Len(s)), sep)

RECURSIVE LStrip(_)
LStrip(s) == IF s # <<>> /\ Head(s) \in Whitespace THEN LStrip(Tail(s)) ELSE s

RECURSIVE RStrip(_)
RStrip(s) ==
    IF s # <<>> /\ s[Len(s)] \in Whitespace THEN RStrip(SubSeq(s, 1, Len(s) - 1)) ELSE s

\* str.strip()
Strip(s) == RStrip(LStrip(s))

\* output.split("### Response:")[1].strip(); the subscript raises IndexError when
\* split returns a single segment
ExtractRaises(text) == Len(Split(text, DELIM)) < 2

\* the subscript -1 in place of 1: the segment after the last delimiter
ExtractResponseLast(text) == Strip(Split(text, DELIM)[Len(Split(text, DELIM))])

ExtractResponse(text) == Strip(Split(text, DELIM)[2])

\* ------------------------------------------------------ adapter arithmetic
Layers == {"attn", "mlp"}

RankIdx == 1..lora_r

\* rank-r factors of one adapted matrix with in = out = 1: A is r x 1, B is 1 x r
Zeros == [k \in RankIdx |-> 0]
Ones == [k \in RankIdx |-> 1]
Unit == [k \in RankIdx |-> IF k = 1 THEN 1 ELSE 0]
FactorPool == {Zeros, Ones, Unit}

RECURSIVE DotUpTo(_, _, _)
DotUpTo(B, A, k) == IF k = 0 THEN 0 ELSE B[k] * A[k] + DotUpTo(B, A, k - 1)

\* B @ A
MatMulBA(B, A) == DotUpTo(B, A, lora_r)

\* scaling = alpha / r
Scaling == lora_alpha \div lora_r

\* dict.update: entries of d2 override or extend those of d1
Update(d1, d2) ==
    [k \in (DOMAIN d1) \cup (DOMAIN d2) |-> IF k \in DOMAIN d2 THEN d2[k] ELSE d1[k]]

\* LoRALinear.merge on one matrix: adds the update once, guarded by the merged flag
MergeLayer(W, A, B, merged) ==
    IF ~merged THEN W + Scaling * MatMulBA(B, A) ELSE W

\* merge_lora_weights(model): merge() on every adapted matrix
MergeLoraWeights(m) ==
    [m EXCEPT !.W = [l \in Layers |-> MergeLayer(m.W[l], m.A[l], m.B[l], m.merged[l])],
              !.merged = [l \in Layers |-> TRUE]]

\* the module tree before any state dict is loaded
EmptyModel ==
    [W |-> [l \in Layers |-> 0], A |-> [l \in Layers |-> Zeros],
     B |-> [l \in Layers |-> Zeros], merged |-> [l \in Layers |-> FALSE]]

\* model.load_state_dict(checkpoint)
LoadStateDict(m, sd) ==
    [m EXCEPT !.W = [l \in Layers |-> sd[<<l, "weight">>]],
              !.A = [l \in Layers |-> sd[<<l, "lora_A">>]],
              !.B = [l \in Layers |-> sd[<<l, "lora_B">>]]]

BaseCheckpoints == [{<<l, "weight">> : l \in Layers} -> 0..MaxWeight]
LoraCheckpoints == [{<<l, p>> : l \in Layers, p \in {"lora_A", "lora_B"}} -> FactorPool]

\* ------------------------------------------------------------ command line
Quantizations == {None, "bnb.nf4", "gptq.int4"}
Precisions == {"bf16-true", "16-mixed"}

StartsWithBnb(q) == q = "bnb.nf4"
IsMixed(p) == p = "16-mixed"

\* the device test off by one
QuantizedMultiDeviceLax(q, d) == q # None /\ d > 2

\* quantize is not None and devices > 1
QuantizedMultiDevice(q, d) == q # None /\ d > 1

\* --------------------------------------------------------- benchmark data
Range(f) == {f[i] : i \in DOMAIN f}

SeqsUpTo(S, n) == UNION {[1..k -> S] : k \in 0..n}

Ctx1 == <<"a","b","a","b">>
Ctx2 == <<"b","b","a">>
TxtAB == <<"a","b">>
TxtBA == <<"b","a">>
TxtBB == <<"b","b">>

\* question records: answers detected only (with a duplicate), plain answers only,
\* both, neither
QaDetected ==
    [question |-> "q_detected",
     detected_answers |-> <<[text |-> TxtAB], [text |-> TxtBA], [text |-> TxtAB]>>,
     answers |-> <<>>]
QaAnswers ==
    [question |-> "q_answers", detected_answers |-> <<>>, answers |-> <<TxtBB, TxtAB>>]
QaBoth ==
    [question |-> "q_both", detected_answers |-> <<[text |-> TxtBA]>>,
     answers |-> <<TxtBB>>]
QaNeither == [question |-> "q_neither", detected_answers |-> <<>>, answers |-> <<>>]
QaPool == {QaDetected, QaAnswers, QaBoth, QaNeither}

Header == "header"

\* the lines of an input file: the header line, then one paragraph per line
FileOf(paragraphs) == <<Header>> \o paragraphs

\* load_data: every line but the first, parsed
LoadData(lines) == IF lines = <<>> THEN <<>> ELSE Tail(lines)

\* the (context, qa) pairs in the order the two nested loops visit them
RECURSIVE QaItems(_)
QaItems(json_data) ==
    IF json_data = <<>> THEN <<>>
    ELSE LET paragraph == Head(json_data)
         IN  [i \in 1..Len(paragraph.qas) |->
                  [context |-> paragraph.context, qa |-> paragraph.qas[i]]]
             \o QaItems(Tail(json_data))

\* list(set(xs)): the distinct elements, in an order the program does not control
ListOfSet(xs) ==
    LET S == Range(xs)
    IN  {f \in [1..Cardinality(S) -> S] : Range(f) = S}

\* lines 54-57: the values `answer` may hold after the if / elif of one question
\* record, given what it held before
AnswerAfter(qa, before) ==
    IF qa.detected_answers # <<>>
    THEN {[bound |-> TRUE, val |-> l] :
              l \in ListOfSet([i \in 1..Len(qa.detected_answers) |->
                                   qa.detected_answers[i].text])}
    ELSE IF qa.answers # <<>>
    THEN {[bound |-> TRUE, val |-> qa.answers]}
    ELSE {before}

\* ------------------------------------------------------------ decoded texts
Pieces == {DELIM, <<"a">>, <<" ", "b", " ">>, <<"#">>, <<"\n">>}

RECURSIVE Concat(_)
Concat(ps) == IF ps = <<>> THEN <<>> ELSE Head(ps) \o Concat(Tail(ps))

AllTexts == {Concat(ps) : ps \in SeqsUpTo(Pieces, MaxPieces)}

\* what tokenizer.decode returns in the evaluation runs: no delimiter, one, one with
\* nothing after it, two
DecodedTexts ==
    {<<"a">>,
     DELIM \o <<" ", "a", "\n">>,
     DELIM,
     <<"a">> \o DELIM \o <<" ", "b">> \o DELIM \o <<"a">>}

\* str(idx)
Str(i) == ToString(i)

Unbound == [bound |-> FALSE, val |-> <<>>]
NoText == [has |-> FALSE, text |-> <<>>]
NotWritten == [done |-> FALSE, predictions |-> <<>>, references |-> <<>>]
NoCache == [max_seq_length |-> 0, batch_size |-> 0, example |-> -1]

VARIABLES
    args,               \* [quantize, devices, max_new_tokens]: the command line
    files,              \* [ckpt, lora, squad]: what is on disk when main starts
    pc,                 \* position in main
    error,              \* the exception main ended with, None while it runs
    precision, plugins, \* main's locals of the same names
    fabric_launched,    \* fabric.launch() has run
    model_file,         \* main's local of the same name
    model_state,        \* "none", "empty" (instantiated), "loaded"
    model,              \* [W, A, B, merged] per adapted matrix
    training,           \* model.training
    wrapped,            \* fabric.setup(model) has run
    data,               \* main's local: the parsed benchmark records
    qa_pos,             \* get_contexts_questions_answers: question records consumed
    answer,             \* get_contexts_questions_answers: its local of the same name
    triples,            \* data_list while it is built, then main's triples
    idx,                \* loop index of the evaluation loop
    references,         \* main's list of reference records
    predictions_with_correct_context,   \* main's list of prediction records
    prompt_length, max_returned_tokens, \* main's locals of the same names
    output,             \* main's local: decoded text, then the prediction text
    fault,              \* where the exception caught for the example that finished last
                        \* was raised, None if its try block ran to the end
    max_seq_length,     \* model.max_seq_length
    kv_cache,           \* the buffers set_kv_cache allocated, and for which example
    dstate, input_pos, y,   \* generate: decode state, position pointer, token sequence
    decoded,            \* what tokenizer.decode returned for the current example
    written             \* the two output files, None until they are written

startup_vars ==
    <<precision, plugins, fabric_launched, model_file, model_state, model, training, wrapped>>

data_vars == <<data, qa_pos, answer, triples>>

loop_vars ==
    <<idx, references, predictions_with_correct_context, prompt_length,
      max_returned_tokens, output, fault, decoded, written>>

cache_vars == <<max_seq_length, kv_cache>>

decode_vars == <<dstate, input_pos, y>>

run_vars == <<data_vars, loop_vars, cache_vars, decode_vars>>

vars == <<args, files, pc, error, startup_vars, run_vars>>

ArgSet ==
    [quantize : Quantizations, devices : {1, 2}, max_new_tokens : 0..MaxNewTokens]

InitWith(argset, ckpts, loras, datasets) ==
    /\ args \in argset
    /\ files \in [ckpt : ckpts, lora : loras, squad : datasets]
    /\ pc = "check_quantize"
    /\ error = None
    /\ precision \in Precisions
    /\ plugins = None
    /\ fabric_launched = FALSE
    /\ model_file = None
    /\ model_state = "none"
    /\ model = EmptyModel
    /\ training = TRUE
    /\ wrapped = FALSE
    /\ data = <<>>
    /\ qa_pos = 0
    /\ answer = Unbound
    /\ triples = <<>>
    /\ idx = 0
    /\ references = <<>>
    /\ predictions_with_correct_context = <<>>
    /\ prompt_length = 0
    /\ max_returned_tokens = 0
    /\ output = <<>>
    /\ fault = None
    /\ decoded = NoText
    /\ max_seq_length = 0
    /\ kv_cache = NoCache
    /\ dstate = "idle"
    /\ input_pos = 0
    /\ y = <<>>
    /\ written = NotWritten

Raise(e) == pc' = "raised" /\ error' = e

\* lines 108-120, quantize is None or accepted
CheckQuantize ==
    /\ pc = "check_quantize"
    /\ ~QuantizedMultiDevice(args.quantize, args.devices)
    /\ ~(StartsWithBnb(args.quantize) /\ IsMixed(precision))
    /\ IF StartsWithBnb(args.quantize)
       THEN plugins' = "BitsandbytesPrecision" /\ precision' = None
       ELSE UNCHANGED <<plugins, precision>>
    /\ pc' = "launch"
    /\ UNCHANGED <<args, files, error, fabric_launched, model_file, model_state, model,
                   training, wrapped, run_vars>>

\* lines 110-114
CheckQuantizeRaiseDevices ==
    /\ pc = "check_quantize"
    /\ QuantizedMultiDevice(args.quantize, args.devices)
    /\ Raise("NotImplementedError")
    /\ UNCHANGED <<args, files, startup_vars, run_vars>>

\* lines 115-117
CheckQuantizeRaiseMixed ==
    /\ pc = "check_quantize"
    /\ ~QuantizedMultiDevice(args.quantize, args.devices)
    /\ StartsWithBnb(args.quantize) /\ IsMixed(precision)
    /\ Raise("ValueError")
    /\ UNCHANGED <<args, files, startup_vars, run_vars>>

\* lines 122-141
FabricLaunch ==
    /\ pc = "launch"
    /\ fabric_launched' = TRUE
    /\ pc' = "select_checkpoint"
    /\ UNCHANGED <<args, files, error, precision, plugins, model_file, model_state, model,
                   training, wrapped, run_vars>>

\* lines 143-151; is_file() reads the disk. The test of line 143 repeats the one
\* of line 110, which has already let this run through.
SelectCheckpoint ==
    /\ pc = "select_checkpoint"
    /\ ~QuantizedMultiDevice(args.quantize, args.devices)
    /\ model_file' = IF args.quantize = "gptq.int4" THEN "lit_model_gptq.4bit.pth"
                     ELSE "lit_model.pth"
    /\ pc' = "instantiate"
    /\ UNCHANGED <<args, files, error, precision, plugins, fabric_launched, model_state,
                   model, training, wrapped, run_vars>>

\* lines 147-148
SelectCheckpointRaiseMissing ==
    /\ pc = "select_checkpoint"
    /\ ~QuantizedMultiDevice(args.quantize, args.devices)
    /\ args.quantize = "gptq.int4"
    /\ model_file' = "lit_model_gptq.4bit.pth"
    /\ Raise("ValueError")
    /\ UNCHANGED <<args, files, precision, plugins, fabric_launched, model_state, model,
                   training, wrapped, run_vars>>

\* lines 153-157
InstantiateModel ==
    /\ pc = "instantiate"
    /\ model_state' = "empty"
    /\ pc' = "load"
    /\ UNCHANGED <<args, files, error, precision, plugins, fabric_launched, model_file,
                   model, training, wrapped, run_vars>>

\* lines 159-164
LoadCheckpoints ==
    /\ pc = "load"
    /\ model' = LoadStateDict(model, Update(files.ckpt, files.lora))
    /\ model_state' = "loaded"
    /\ pc' = "eval"
    /\ UNCHANGED <<args, files, error, precision, plugins, fabric_launched, model_file,
                   training, wrapped, run_vars>>

\* line 166
Eval ==
    /\ pc = "eval"
    /\ training' = FALSE
    /\ pc' = "merge"
    /\ UNCHANGED <<args, files, error, precision, plugins, fabric_launched, model_file,
                   model_state, model, wrapped, run_vars>>

\* the merge_lora_weights call left out
MergeOmitted ==
    /\ pc = "merge"
    /\ pc' = "setup"
    /\ UNCHANGED <<args, files, error, startup_vars, run_vars>>

\* line 167
Merge ==
    /\ pc = "merge"
    /\ model' = MergeLoraWeights(model)
    /\ pc' = "setup"
    /\ UNCHANGED <<args, files, error, precision, plugins, fabric_launched, model_file,
                   model_state, training, wrapped, run_vars>>

\* lines 168-170
FabricSetup ==
    /\ pc = "setup"
    /\ wrapped' = TRUE
    /\ pc' = "load_data"
    /\ UNCHANGED <<args, files, error, precision, plugins, fabric_launched, model_file,
                   model_state, model, training, run_vars>>

\* line 173
ReadData ==
    /\ pc = "load_data"
    /\ data' = LoadData(files.squad)
    /\ pc' = "get_triples"
    /\ UNCHANGED <<args, files, error, startup_vars, qa_pos, answer, triples, loop_vars,
                   cache_vars, decode_vars>>

\* lines 50-64, one question record whose `answer` is bound when line 62 reads it
GetTriple ==
    /\ pc = "get_triples"
    /\ qa_pos < Len(QaItems(data))
    /\ LET item == QaItems(data)[qa_pos + 1]
       IN  \E a \in AnswerAfter(item.qa, answer) :
               /\ a.bound
               /\ answer' = a
               /\ triples' = Append(triples, [context |-> item.context,
                                              question |-> item.qa.question,
                                              answer |-> a.val])
    /\ qa_pos' = qa_pos + 1
    /\ UNCHANGED <<args, files, pc, error, startup_vars, data, loop_vars, cache_vars,
                   decode_vars>>

\* lines 59-63 reading `answer` before any assignment to it
GetTripleRaiseUnbound ==
    /\ pc = "get_triples"
    /\ qa_pos < Len(QaItems(data))
    /\ \E a \in AnswerAfter(QaItems(data)[qa_pos + 1].qa, answer) : ~a.bound
    /\ Raise("UnboundLocalError")
    /\ UNCHANGED <<args, files, startup_vars, run_vars>>

\* lines 66 and 174
ReturnTriples ==
    /\ pc = "get_triples"
    /\ qa_pos = Len(QaItems(data))
    /\ qa_pos' = 0
    /\ answer' = Unbound
    /\ pc' = "loop"
    /\ UNCHANGED <<args, files, error, startup_vars, data, triples, loop_vars, cache_vars,
                   decode_vars>>

\* line 181
ReferenceRecord(i, triple) ==
    [id |-> Str(i),
     answers |-> [answer_start |-> [j \in 1..Len(triple.answer) |->
                                        Find(triple.context, triple.answer[j])],
                  text |-> [j \in 1..Len(triple.answer) |-> triple.answer[j]]]]

\* the bound one token too long
MaxReturnedTokensOffByOne(n, max_new_tokens) == n + max_new_tokens + 1

\* line 187
MaxReturnedTokens(n, max_new_tokens) == n + max_new_tokens

\* lines 179-187; the tokenizer decides the prompt's encoded length
LoopNext ==
    /\ pc = "loop"
    /\ idx < Len(triples)
    /\ references' = Append(references, ReferenceRecord(idx, triples[idx + 1]))
    /\ \E n \in 1..MaxPrompt :
           /\ prompt_length' = n
           /\ max_returned_tokens' = MaxReturnedTokens(n, args.max_new_tokens)
    /\ decoded' = NoText
    /\ pc' = "set_max_seq_length"
    /\ UNCHANGED <<args, files, error, startup_vars, data_vars, idx,
                   predictions_with_correct_context, output, fault, written, cache_vars,
                   decode_vars>>

\* lines 179-185 with generate_prompt or tokenizer.encode raising, outside the try
LoopNextRaise ==
    /\ pc = "loop"
    /\ idx < Len(triples)
    /\ references' = Append(references, ReferenceRecord(idx, triples[idx + 1]))
    /\ Raise("EncodeError")
    /\ UNCHANGED <<args, files, startup_vars, data_vars, idx,
                   predictions_with_correct_context, prompt_length, max_returned_tokens,
                   output, fault, decoded, written, cache_vars, decode_vars>>

\* no handler: the exception leaves main
CaughtReraise(site) ==
    /\ fault' = site
    /\ output' = output
    /\ pc' = "raised"
    /\ error' = site

\* lines 200-201: the bare except of the try that starts at line 188
Caught(site) ==
    /\ fault' = site
    /\ output' = <<>>
    /\ pc' = "append"
    /\ error' = error

\* line 191
SetMaxSeqLength ==
    /\ pc = "set_max_seq_length"
    /\ max_seq_length' = max_returned_tokens
    /\ pc' = "set_kv_cache"
    /\ UNCHANGED <<args, files, error, startup_vars, data_vars, loop_vars, kv_cache,
                   decode_vars>>

\* model.set_kv_cache(batch_size): buffers of the model's current max_seq_length
SetKvCacheOf(batch_size) ==
    [max_seq_length |-> max_seq_length, batch_size |-> batch_size, example |-> idx]

\* the cache allocated for the first example only and then reused
SetKvCacheReuse ==
    /\ pc = "set_kv_cache"
    /\ kv_cache' = IF kv_cache = NoCache THEN SetKvCacheOf(1) ELSE kv_cache
    /\ pc' = "generate"
    /\ UNCHANGED <<args, files, error, startup_vars, data_vars, loop_vars, max_seq_length,
                   decode_vars>>

\* line 193
SetKvCache ==
    /\ pc = "set_kv_cache"
    /\ kv_cache' = SetKvCacheOf(1)
    /\ pc' = "generate"
    /\ UNCHANGED <<args, files, error, startup_vars, data_vars, loop_vars, max_seq_length,
                   decode_vars>>

\* line 193 with the allocation failing
SetKvCacheRaise ==
    /\ pc = "set_kv_cache"
    /\ Caught("set_kv_cache")
    /\ UNCHANGED <<args, files, startup_vars, data_vars, idx, references,
                   predictions_with_correct_context, prompt_length, max_returned_tokens,
                   decoded, written, cache_vars, decode_vars>>

\* ------------------------------------------------- generate (decode loop)
Terminal == {"STOPPED_EOS", "STOPPED_MAX_LEN"}

Tokens == {"eos", "tok"}

\* the state the loop is in once the position pointer is at pos and the last sampled
\* token was t: stop on end-of-sequence, stop when the pointer reaches the maximum
\* returned token count, otherwise keep generating
AfterToken(t, pos, max_tokens) ==
    IF t = "eos" THEN "STOPPED_EOS"
    ELSE IF pos >= max_tokens THEN "STOPPED_MAX_LEN"
    ELSE "GENERATING"

\* line 195: the call enters PROMPT_INGEST
GenerateCall ==
    /\ pc = "generate"
    /\ dstate' = "PROMPT_INGEST"
    /\ input_pos' = 0
    /\ y' = <<>>
    /\ pc' = "generating"
    /\ UNCHANGED <<args, files, error, startup_vars, data_vars, loop_vars, cache_vars>>

\* PROMPT_INGEST: the whole prompt in one pass, the pointer at the prompt length
PromptIngest ==
    /\ pc = "generating"
    /\ dstate = "PROMPT_INGEST"
    /\ max_seq_length >= max_returned_tokens
    /\ kv_cache.max_seq_length >= max_returned_tokens
    /\ y' = [i \in 1..prompt_length |-> "tok"]
    /\ input_pos' = prompt_length
    /\ dstate' = AfterToken("tok", prompt_length, max_returned_tokens)
    /\ UNCHANGED <<args, files, pc, error, startup_vars, data_vars, loop_vars, cache_vars>>

\* GENERATING: one sampled token is appended and the pointer advances by one
GenerateToken ==
    /\ pc = "generating"
    /\ dstate = "GENERATING"
    /\ \E t \in Tokens :
           /\ y' = Append(y, t)
           /\ input_pos' = input_pos + 1
           /\ dstate' = AfterToken(t, input_pos + 1, max_returned_tokens)
    /\ UNCHANGED <<args, files, pc, error, startup_vars, data_vars, loop_vars, cache_vars>>

\* a terminal state returns the token sequence to line 195
GenerateReturn ==
    /\ pc = "generating"
    /\ dstate \in Terminal
    /\ pc' = "decode"
    /\ UNCHANGED <<args, files, error, startup_vars, run_vars>>

\* line 195 raising: a forward pass fails, or the cache and length bound do not
\* cover the prompt
GenerateRaise ==
    /\ pc = "generating"
    /\ dstate \in {"PROMPT_INGEST", "GENERATING"}
    /\ dstate' = "FAILED"
    /\ Caught("generate")
    /\ UNCHANGED <<args, files, startup_vars, data_vars, idx, references,
                   predictions_with_correct_context, prompt_length, max_returned_tokens,
                   decoded, written, cache_vars, input_pos, y>>

\* ---------------------------------------------- detokenize, extract, record
\* line 198
Decode ==
    /\ pc = "decode"
    /\ \E text \in DecodedTexts :
           /\ decoded' = [has |-> TRUE, text |-> text]
           /\ output' = text
    /\ pc' = "extract"
    /\ UNCHANGED <<args, files, error, startup_vars, data_vars, idx, references,
                   predictions_with_correct_context, prompt_length, max_returned_tokens,
                   fault, written, cache_vars, decode_vars>>

\* line 198 raising
DecodeRaise ==
    /\ pc = "decode"
    /\ Caught("decode")
    /\ UNCHANGED <<args, files, startup_vars, data_vars, idx, references,
                   predictions_with_correct_context, prompt_length, max_returned_tokens,
                   decoded, written, cache_vars, decode_vars>>

\* line 199
Extract ==
    /\ pc = "extract"
    /\ ~ExtractRaises(output)
    /\ output' = ExtractResponse(output)
    /\ fault' = None
    /\ pc' = "append"
    /\ UNCHANGED <<args, files, error, startup_vars, data_vars, idx, references,
                   predictions_with_correct_context, prompt_length, max_returned_tokens,
                   decoded, written, cache_vars, decode_vars>>

\* line 199 raising IndexError
ExtractRaise ==
    /\ pc = "extract"
    /\ ExtractRaises(output)
    /\ Caught("extract")
    /\ UNCHANGED <<args, files, startup_vars, data_vars, idx, references,
                   predictions_with_correct_context, prompt_length, max_returned_tokens,
                   decoded, written, cache_vars, decode_vars>>

\* ids counted from one
PredictionRecordOneBased(i, text) == [id |-> Str(i + 1), prediction_text |-> text]

\* line 202
PredictionRecord(i, text) == [id |-> Str(i), prediction_text |-> text]

\* line 202, and the loop's step to the next index
AppendPrediction ==
    /\ pc = "append"
    /\ predictions_with_correct_context' =
           Append(predictions_with_correct_context, PredictionRecord(idx, output))
    /\ idx' = idx + 1
    /\ dstate' = "idle"
    /\ input_pos' = 0
    /\ y' = <<>>
    /\ pc' = "loop"
    /\ UNCHANGED <<args, files, error, startup_vars, data_vars, references, prompt_length,
                   max_returned_tokens, output, fault, decoded, written, cache_vars>>

\* lines 204-218
WriteFiles ==
    /\ pc = "loop"
    /\ idx >= Len(triples)
    /\ written' = [done |-> TRUE, predictions |-> predictions_with_correct_context,
                   references |-> references]
    /\ pc' = "score"
    /\ UNCHANGED <<args, files, error, startup_vars, data_vars, idx, references,
                   predictions_with_correct_context, prompt_length, max_returned_tokens,
                   output, fault, decoded, cache_vars, decode_vars>>

\* lines 220-227
Score ==
    /\ pc = "score"
    /\ pc' = "done"
    /\ UNCHANGED <<args, files, error, startup_vars, run_vars>>

Next ==
    \/ CheckQuantize \/ CheckQuantizeRaiseDevices \/ CheckQuantizeRaiseMixed
    \/ FabricLaunch \/ SelectCheckpoint \/ SelectCheckpointRaiseMissing
    \/ InstantiateModel \/ LoadCheckpoints \/ Eval \/ Merge \/ FabricSetup
    \/ ReadData \/ GetTriple \/ GetTripleRaiseUnbound \/ ReturnTriples
    \/ LoopNext \/ LoopNextRaise \/ SetMaxSeqLength \/ SetKvCache \/ SetKvCacheRaise
    \/ GenerateCall \/ PromptIngest \/ GenerateToken \/ GenerateReturn \/ GenerateRaise
    \/ Decode \/ DecodeRaise \/ Extract \/ ExtractRaise \/ AppendPrediction
    \/ WriteFiles \/ Score

\* the benchmark files of the evaluation runs
MainData ==
    {FileOf(<<>>),
     FileOf(<<[context |-> Ctx1, qas |-> <<QaDetected, QaAnswers>>]>>),
     FileOf(<<[context |-> Ctx1, qas |-> <<QaAnswers>>],
              [context |-> Ctx2, qas |-> <<QaNeither, QaBoth>>]>>),
     FileOf(<<[context |-> Ctx2, qas |-> <<QaNeither>>]>>)}

MainBase == {[k \in {<<l, "weight">> : l \in Layers} |-> 1]}
MainLora ==
    {[k \in {<<l, p>> : l \in Layers, p \in {"lora_A", "lora_B"}} |->
          IF k[1] = "attn" THEN Ones ELSE Unit]}

Init == InitWith(ArgSet, MainBase, MainLora, MainData)

Spec == Init /\ [][Next]_vars

\* every checkpoint within the bounds, on the two smallest benchmark files
MergeData ==
    {FileOf(<<[context |-> Ctx1, qas |-> <<QaAnswers>>]>>),
     FileOf(<<[context |-> Ctx2, qas |-> <<QaNeither>>]>>)}

MergeArgs == {a \in ArgSet : a.max_new_tokens = 1}

InitMerge == InitWith(MergeArgs, BaseCheckpoints, LoraCheckpoints, MergeData)

SpecMerge == InitMerge /\ [][Next]_vars

\* ------------------------------------------------ the pure functions alone
\* main's state once the model is set up (line 170), for one command line and one
\* pair of checkpoints
StartedWith(a, base, lora) ==
    /\ args = a
    /\ error = None
    /\ precision = "bf16-true"
    /\ plugins = None
    /\ fabric_launched = TRUE
    /\ model_file = "lit_model.pth"
    /\ model_state = "loaded"
    /\ model = MergeLoraWeights(LoadStateDict(EmptyModel, Update(base, lora)))
    /\ training = FALSE
    /\ wrapped = TRUE
    /\ max_seq_length = 0
    /\ kv_cache = NoCache
    /\ written = NotWritten

DefaultArgs == [quantize |-> None, devices |-> 1, max_new_tokens |-> MaxNewTokens]

Paragraphs == [context : {Ctx1}, qas : SeqsUpTo(QaPool, MaxQas)]

AllData == SeqsUpTo(Paragraphs, MaxParagraphs)

\* get_contexts_questions_answers entered with any benchmark data within the bounds
InitData ==
    /\ \E base \in MainBase, lora \in MainLora, d \in AllData :
           /\ files = [ckpt |-> base, lora |-> lora, squad |-> FileOf(d)]
           /\ StartedWith(DefaultArgs, base, lora)
           /\ data = d
    /\ pc = "get_triples"
    /\ qa_pos = 0
    /\ answer = Unbound
    /\ triples = <<>>
    /\ idx = 0
    /\ references = <<>>
    /\ predictions_with_correct_context = <<>>
    /\ prompt_length = 0
    /\ max_returned_tokens = 0
    /\ output = <<>>
    /\ fault = None
    /\ decoded = NoText
    /\ dstate = "idle"
    /\ input_pos = 0
    /\ y = <<>>

NextData == GetTriple \/ GetTripleRaiseUnbound \/ ReturnTriples

SpecData == InitData /\ [][NextData]_vars

OneTriple == <<[context |-> Ctx1, question |-> "q_answers", answer |-> <<TxtBB, TxtAB>>]>>

\* line 199 reached with any decoded text within the bounds, for the first example
InitExtract ==
    /\ \E base \in MainBase, lora \in MainLora :
           /\ files = [ckpt |-> base, lora |-> lora,
                       squad |-> FileOf(<<[context |-> Ctx1, qas |-> <<QaAnswers>>]>>)]
           /\ StartedWith(DefaultArgs, base, lora)
    /\ data = <<[context |-> Ctx1, qas |-> <<QaAnswers>>]>>
    /\ pc = "extract"
    /\ qa_pos = 0
    /\ answer = Unbound
    /\ triples = OneTriple
    /\ idx = 0
    /\ references = <<ReferenceRecord(0, OneTriple[1])>>
    /\ predictions_with_correct_context = <<>>
    /\ prompt_length = 1
    /\ max_returned_tokens = 1 + MaxNewTokens
    /\ \E text \in AllTexts :
           /\ output = text
           /\ decoded = [has |-> TRUE, text |-> text]
    /\ fault = None
    /\ dstate = "STOPPED_MAX_LEN"
    /\ input_pos = 1 + MaxNewTokens
    /\ y = [i \in 1..(1 + MaxNewTokens) |-> "tok"]

NextExtract == Extract \/ ExtractRaise \/ AppendPrediction

SpecExtract == InitExtract /\ [][NextExtract]_vars

\* ------------------------------------------------------------------ claims
TrySites == {"set_kv_cache", "generate", "decode", "extract"}

Finished == {"score", "done"}

\* C1: when cache set-up, generate, tokenizer.decode or the response extraction
\* raises for example i, the record {id: str(i), prediction_text: ''} is appended
\* for it, and the run does not end there: the exception never ends main, and a run
\* that reaches the end of the loop has a prediction for every triple.
C1_FailureRecordedAndLoopContinues ==
    /\ fault # None => fault \in TrySites
    /\ (fault # None /\ pc = "append") => (output = <<>> /\ error = None)
    /\ (fault # None /\ pc # "append") =>
           /\ idx >= 1
           /\ Len(predictions_with_correct_context) = idx
           /\ predictions_with_correct_context[idx] =
                  [id |-> Str(idx - 1), prediction_text |-> <<>>]
    /\ pc = "raised" => error \notin TrySites
    /\ pc \in Finished => Len(predictions_with_correct_context) = Len(triples)

\* an example failed in generate and the next example is being decoded
C1_Witness ==
    /\ fault = "generate"
    /\ pc = "generating"
    /\ dstate = "GENERATING"
    /\ idx >= 1

\* C2: with max_returned_tokens = P + M the decode loop's pointer starts at P, is
\* the number of tokens in the sequence (one more per generated token), never
\* passes P + M, and at P + M the loop is in a terminal state; until it returns the
\* loop always has a step to take that raises nothing; what generate returns has at
\* most P + M tokens and comes from STOPPED_EOS or STOPPED_MAX_LEN.
C2_DecodeBounded ==
    LET P == prompt_length
        M == args.max_new_tokens
    IN  /\ (pc = "generating" /\ dstate \in {"GENERATING"} \cup Terminal) =>
               /\ max_returned_tokens = P + M
               /\ input_pos = Len(y)
               /\ P <= input_pos /\ input_pos <= P + M
               /\ Len(y) - P <= M
               /\ input_pos = P + M => dstate \in Terminal
               /\ dstate = "STOPPED_MAX_LEN" => input_pos = P + M
               /\ dstate = "STOPPED_EOS" => y[Len(y)] = "eos"
        /\ pc = "generating" => ENABLED (PromptIngest \/ GenerateToken \/ GenerateReturn)
        /\ pc \in {"decode", "extract"} =>
               /\ dstate \in Terminal
               /\ Len(y) <= P + M

\* the end-of-sequence token was never sampled and the loop stopped after M > 0 tokens
C2_Witness ==
    /\ pc = "decode"
    /\ dstate = "STOPPED_MAX_LEN"
    /\ args.max_new_tokens = MaxNewTokens
    /\ Len(y) = prompt_length + MaxNewTokens
    /\ \A i \in 1..Len(y) : y[i] # "eos"

\* C3: whenever generate is invoked for an example, model.max_seq_length is that
\* example's prompt_length + max_new_tokens and the cache was allocated by a
\* set_kv_cache(batch_size=1) call made for this example with that length.
C3_FreshBoundAndCache ==
    pc \in {"generate", "generating"} =>
        /\ max_seq_length = prompt_length + args.max_new_tokens
        /\ kv_cache.max_seq_length = prompt_length + args.max_new_tokens
        /\ kv_cache.batch_size = 1
        /\ kv_cache.example = idx

\* generate is invoked for an example whose predecessor failed part-way in generate
C3_Witness ==
    /\ pc = "generate"
    /\ idx >= 1
    /\ fault = "generate"
    /\ kv_cache.example = idx

\* C4, as claimed: a failing KV-cache allocation ends the run with the error.
C4_AllocationFailureIsFatal ==
    fault = "set_kv_cache" => (pc = "raised" /\ error # None)

\* C5: with a quantization mode and devices > 1 main raises NotImplementedError
\* before the model is instantiated, a checkpoint loaded, the benchmark read or any
\* record or output file produced.
C5_QuantizedMultiDeviceRejected ==
    (args.quantize # None /\ args.devices > 1) =>
        /\ pc \in {"check_quantize", "raised"}
        /\ pc = "raised" => error = "NotImplementedError"
        /\ model_state = "none"
        /\ data = <<>> /\ triples = <<>>
        /\ references = <<>> /\ predictions_with_correct_context = <<>>
        /\ ~written.done

C5_Witness ==
    /\ args.quantize = "gptq.int4"
    /\ args.devices = 2
    /\ pc = "raised"

AllMerged == \A l \in Layers : model.merged[l]

LoadedWeight(l) == files.ckpt[<<l, "weight">>]

LoraDelta(l) ==
    (lora_alpha \div lora_r) * MatMulBA(files.lora[<<l, "lora_B">>], files.lora[<<l, "lora_A">>])

\* C6: the merge sets every adapted W to W + (alpha/r)*B*A and its merged flag, a
\* further merge of the merged model changes nothing, and in main the merge comes
\* after the checkpoints are loaded and the model is in evaluation mode, and before
\* any example is decoded.
C6_MergeOnceBeforeDecoding ==
    /\ \A l \in Layers :
           /\ model.merged[l] => model.W[l] = LoadedWeight(l) + LoraDelta(l)
           /\ (model_state = "loaded" /\ ~model.merged[l]) => model.W[l] = LoadedWeight(l)
    /\ AllMerged => MergeLoraWeights(model) = model
    /\ (\E l \in Layers : model.merged[l]) => (model_state = "loaded" /\ ~training)
    /\ pc \in {"setup", "load_data", "get_triples", "loop", "set_max_seq_length",
               "set_kv_cache", "generate", "generating", "decode", "extract", "append",
               "score", "done"} => AllMerged
    /\ (idx > 0 \/ dstate # "idle" \/ references # <<>>) => AllMerged

\* a merged model whose two matrices both changed, while an example is decoded
C6_Witness ==
    /\ pc = "generating"
    /\ AllMerged
    /\ \A l \in Layers : LoraDelta(l) > 0 /\ model.W[l] = LoadedWeight(l) + LoraDelta(l)

\* C7: the reference record of triple i lists the triple's answers in order, and
\* answer_start has one entry per answer: the first offset at which the answer
\* occurs in the context, or -1 when it occurs nowhere.
C7_ReferenceOffsets ==
    \A i \in 1..Len(references) :
        LET r == references[i]
            t == triples[i]
        IN  /\ r.answers.text = t.answer
            /\ Len(r.answers.answer_start) = Len(t.answer)
            /\ \A j \in 1..Len(t.answer) :
                   LET off == r.answers.answer_start[j]
                       occurs(k) == MatchAt(t.context, t.answer[j], k)
                   IN  \/ off = -1 /\ \A k \in 0..Len(t.context) : ~occurs(k)
                       \/ /\ off \in 0..Len(t.context)
                          /\ occurs(off)
                          /\ \A k \in 0..(off - 1) : ~occurs(k)

\* a reference with an answer that is not in the context and one that occurs twice
C7_Witness ==
    \E i \in 1..Len(references) :
        /\ references[i].answers.answer_start = <<-1, 0>>
        /\ MatchAt(triples[i].context, triples[i].answer[2], 2)

\* C8: at the end of every iteration, and when the files are written, predictions
\* and references both have one record per processed triple, the record at
\* position i carrying id str(i).
C8_ListsAligned ==
    /\ pc \in {"loop"} \cup Finished =>
           /\ Len(predictions_with_correct_context) = idx
           /\ Len(references) = idx
           /\ \A i \in 0..(idx - 1) :
                  /\ predictions_with_correct_context[i + 1].id = ToString(i)
                  /\ references[i + 1].id = ToString(i)
    /\ written.done =>
           /\ written.predictions = predictions_with_correct_context
           /\ written.references = references
           /\ Len(written.predictions) = Len(triples)
           /\ Len(written.references) = Len(triples)

\* the files are written after three examples, the last of which failed
C8_Witness ==
    /\ written.done
    /\ idx = 3
    /\ fault = "decode"
    /\ \E i \in 1..2 : predictions_with_correct_context[i].prediction_text # <<>>

\* C9, as claimed: no triple is emitted for a question record whose
\* detected_answers and answers are both empty.
C9_NoTripleWithoutAnswers ==
    \A k \in 1..Len(triples) :
        k <= Len(QaItems(data)) =>
            LET qa == QaItems(data)[k].qa
            IN  qa.detected_answers # <<>> \/ qa.answers # <<>>

Occurrences(text) == {i \in 0..Len(text) : MatchAt(text, DELIM, i)}

Least(S) == CHOOSE i \in S : \A j \in S : i <= j

\* out is seg with the whitespace at its two ends removed
IsStripOf(out, seg) ==
    \E a \in 0..Len(seg) : \E b \in a..Len(seg) :
        /\ out = Slice(seg, a, b)
        /\ \A k \in 1..a : seg[k] \in Whitespace
        /\ \A k \in (b + 1)..Len(seg) : seg[k] \in Whitespace
        /\ out # <<>> => (out[1] \notin Whitespace /\ out[Len(out)] \notin Whitespace)

\* C10: the prediction of an example whose text was decoded is '' when the
\* delimiter does not occur in the text, and otherwise the stripped segment between
\* the end of its first occurrence and its next occurrence (or the end of the text).
C10_ResponseExtraction ==
    (pc = "loop" /\ idx >= 1 /\ decoded.has) =>
        LET text == decoded.text
            occ == Occurrences(text)
            pred == predictions_with_correct_context[idx].prediction_text
        IN  IF occ = {} THEN pred = <<>> /\ fault = "extract"
            ELSE LET from == Least(occ) + Len(DELIM)
                     later == {i \in occ : i >= from}
                     to == IF later = {} THEN Len(text) ELSE Least(later)
                 IN  /\ fault = None
                     /\ IsStripOf(pred, Slice(text, from, to))

\* text before the first delimiter, a response with whitespace around it, a second
\* delimiter and text after it
C10_Witness ==
    /\ pc = "loop"
    /\ decoded.has
    /\ decoded.text = <<"a">> \o DELIM \o <<" ", "b", " ">> \o DELIM \o <<"a">>
    /\ predictions_with_correct_context[idx].prediction_text = <<"b">>
====
